---------------------------- MODULE Spec2Model ----------------------------
(***************************************************************************)
(* A model of WebMCP (src/server.py): the content extractor                *)
(* fetch_page_content, the tools web_search and url_info, and the redirect *)
(* decoding step of web_search.                                            *)
(*                                                                         *)
(* Python strings are sequences of one-character strings, so startswith,   *)
(* split, lower, `in`, len and slicing are computed character by           *)
(* character.  An HTTP exchange is decided by the network: every await of  *)
(* a request draws its outcome (an exception, or a response with a status, *)
(* headers and a body) from a bounded pool.                                *)
(***************************************************************************)
EXTENDS Integers, Sequences, FiniteSets, TLC

VARIABLES
    pc,               \* position of the running coroutine
    ret,              \* the value the invocation returned
    requests,         \* the requests issued on the session so far, in order
    response,         \* outcome of the request being awaited / last answered
    max_length,       \* fetch_page_content's max_length argument
    parsed,           \* whether BeautifulSoup was run on a fetched page body
    query,            \* web_search's arguments
    limit,
    include_content,
    result_divs,      \* web_search: the result blocks found in the page
    i,                \* web_search: number of blocks of the slice handled
    results,          \* web_search: the items emitted so far
    url,              \* url_info's argument / web_search's current item url
    content_info,     \* url_info: the dictionary under construction
    href              \* the raw href given to the redirect decoding step

vars == <<pc, ret, requests, response, max_length, parsed, query, limit,
          include_content, result_divs, i, results, url, content_info, href>>

-----------------------------------------------------------------------------
(* Bounds of the model *)

MaxElems == 3
MaxLen == 3
MaxBlocks == 3
MaxLimit == 3
MaxPieces == 3

-----------------------------------------------------------------------------
(* Python string primitives, on sequences of characters *)

Pending == <<"pending">>

Min(a, b) == IF a <= b THEN a ELSE b

Upper == <<"A","B","C","D","E","F","G","H","I","J","K","L","M",
           "N","O","P","Q","R","S","T","U","V","W","X","Y","Z">>
Lowercase == <<"a","b","c","d","e","f","g","h","i","j","k","l","m",
               "n","o","p","q","r","s","t","u","v","w","x","y","z">>

LowerChar(c) ==
    IF \E k \in 1..26 : Upper[k] = c
    THEN Lowercase[CHOOSE k \in 1..26 : Upper[k] = c]
    ELSE c

Lower(s) == [k \in 1..Len(s) |-> LowerChar(s[k])]

StartsWith(s, p) == Len(s) >= Len(p) /\ SubSeq(s, 1, Len(p)) = p

\* position of the first occurrence of needle in s, 0 when there is none
Find(s, needle) ==
    LET hits == {k \in 1..(Len(s) - Len(needle) + 1) :
                    SubSeq(s, k, k + Len(needle) - 1) = needle}
    IN IF hits = {} THEN 0 ELSE CHOOSE k \in hits : \A j \in hits : k <= j

Contains(s, needle) == Find(s, needle) # 0

IsSpace(c) == c \in {" ", "\n", "\t"}

RECURSIVE LStrip(_)
LStrip(s) == IF s # <<>> /\ IsSpace(Head(s)) THEN LStrip(Tail(s)) ELSE s

RECURSIVE RStrip(_)
RStrip(s) ==
    IF s # <<>> /\ IsSpace(s[Len(s)]) THEN RStrip(SubSeq(s, 1, Len(s) - 1)) ELSE s

Strip(s) == RStrip(LStrip(s))

\* re.sub(r'\s+', ' ', s): every maximal run of whitespace becomes one space
RECURSIVE CollapseWs(_)
CollapseWs(s) ==
    IF s = <<>> THEN <<>>
    ELSE IF IsSpace(Head(s)) THEN <<" ">> \o CollapseWs(LStrip(s))
    ELSE <<Head(s)>> \o CollapseWs(Tail(s))

\* sep.join(parts)
RECURSIVE Join(_, _)
Join(sep, parts) ==
    IF parts = <<>> THEN <<>>
    ELSE IF Len(parts) = 1 THEN parts[1]
    ELSE parts[1] \o sep \o Join(sep, Tail(parts))

Digits == <<"0","1","2","3","4","5","6","7","8","9">>

\* str(n) of a non-negative integer
RECURSIVE Str(_)
Str(n) == IF n < 10 THEN <<Digits[n + 1]>> ELSE Str(n \div 10) \o <<Digits[(n % 10) + 1]>>

SeqsUpTo(S, n) == UNION {[1..m -> S] : m \in 0..n}

RECURSIVE Flatten(_)
Flatten(ss) == IF ss = <<>> THEN <<>> ELSE Head(ss) \o Flatten(Tail(ss))

-----------------------------------------------------------------------------
(* String literals of server.py *)

S_extraction_failed == <<"C","o","n","t","e","n","t"," ","e","x","t","r","a","c","t","i","o","n"," ","f","a","i","l","e","d",":"," ">>
S_HTTP == <<"H","T","T","P"," ">>
S_non_html == <<"N","o","n","-","H","T","M","L"," ","c","o","n","t","e","n","t">>
S_text_html == <<"t","e","x","t","/","h","t","m","l">>
S_content_type == <<"c","o","n","t","e","n","t","-","t","y","p","e">>
S_content_length == <<"c","o","n","t","e","n","t","-","l","e","n","g","t","h">>
S_server == <<"s","e","r","v","e","r">>
S_last_modified == <<"l","a","s","t","-","m","o","d","i","f","i","e","d">>
S_unknown == <<"u","n","k","n","o","w","n">>
S_ellipsis == <<".",".",".">>
S_search_failed_status == <<"S","e","a","r","c","h"," ","f","a","i","l","e","d"," ","w","i","t","h"," ","s","t","a","t","u","s"," ">>
S_search_failed == <<"S","e","a","r","c","h"," ","f","a","i","l","e","d",":"," ">>
S_url_analysis_failed == <<"U","R","L"," ","a","n","a","l","y","s","i","s"," ","f","a","i","l","e","d",":"," ">>
S_redirect_prefix == <<"/","l","/","?","u","d","d","g","=">>
S_uddg == <<"u","d","d","g","=">>
S_amp == <<"&">>

\* the alternatives of re.compile(r'content|main|article')
ClassPattern ==
    { <<"c","o","n","t","e","n","t">>, <<"m","a","i","n">>,
      <<"a","r","t","i","c","l","e">> }

DefaultMaxLength == 2000
PreviewMaxLength == 500

-----------------------------------------------------------------------------
(* Headers.  response.headers is a case-insensitive multidict; dict() of   *)
(* it is a plain dictionary keyed by the names as the server sent them.    *)

Header(n, v) == [name |-> n, value |-> v]

\* CIMultiDictProxy.get(key, default)
CIGet(headers, key, default) ==
    LET hits == {k \in 1..Len(headers) : Lower(headers[k].name) = Lower(key)}
    IN IF hits = {} THEN default
       ELSE headers[CHOOSE k \in hits : \A j \in hits : k <= j].value

\* dict.get(key, default): the key is compared exactly
DictGet(headers, key, default) ==
    LET hits == {k \in 1..Len(headers) : headers[k].name = key}
    IN IF hits = {} THEN default
       ELSE headers[CHOOSE k \in hits : \A j \in hits : k <= j].value

-----------------------------------------------------------------------------
(* HTML documents as BeautifulSoup(html, 'html.parser') sees them: an      *)
(* optional text node in the head, and the elements of the body (or of the *)
(* top level, when the markup has no body element) in document order.  An  *)
(* element has a tag, class tokens, a text node and possibly a nested      *)
(* script subtree.                                                         *)

Cls_content == <<"c","o","n","t","e","n","t">>
Cls_Content == <<"C","o","n","t","e","n","t">>
Cls_nav == <<"n","a","v">>
Cls_mainbar == <<"m","a","i","n","b","a","r">>

ElemKinds ==
    { [tag |-> "main",    cls |-> <<>>,                     script |-> TRUE ],
      [tag |-> "article", cls |-> <<>>,                     script |-> FALSE],
      [tag |-> "div",     cls |-> <<Cls_content>>,          script |-> TRUE ],
      [tag |-> "div",     cls |-> <<Cls_Content>>,          script |-> FALSE],
      [tag |-> "div",     cls |-> <<Cls_nav, Cls_mainbar>>, script |-> FALSE],
      [tag |-> "section", cls |-> <<Cls_content>>,          script |-> FALSE],
      [tag |-> "div",     cls |-> <<>>,                     script |-> FALSE],
      [tag |-> "script",  cls |-> <<>>,                     script |-> FALSE],
      [tag |-> "style",   cls |-> <<Cls_content>>,          script |-> FALSE] }

Letters == <<"a","b","c","d","e","f","g","h">>

\* the text node of the k-th element: padded and broken, plain, or blank
TextAt(k) ==
    LET c == Letters[((k - 1) % Len(Letters)) + 1]
    IN CASE k % 3 = 1 -> <<" ", c, "\n", "\t", c, " ">>
         [] k % 3 = 2 -> <<c>>
         [] OTHER     -> <<" ", "\n">>

ScriptText == <<"$", "(", ")">>
HeadText == <<"T">>

MkElems(kinds) ==
    [k \in 1..Len(kinds) |->
        [tag |-> kinds[k].tag, cls |-> kinds[k].cls,
         text |-> IF kinds[k].tag \in {"script", "style"} THEN ScriptText ELSE TextAt(k),
         script |-> IF kinds[k].script THEN ScriptText ELSE <<>>]]

EmptyDoc == [head |-> <<>>, hasBody |-> FALSE, elems |-> <<>>]

\* a head text node, a body element, both or neither around the elements
Shells ==
    { [head |-> HeadText, hasBody |-> TRUE],
      [head |-> HeadText, hasBody |-> FALSE],
      [head |-> <<>>,     hasBody |-> FALSE] }

Docs ==
    { [head |-> sh.head, hasBody |-> sh.hasBody, elems |-> MkElems(ks)] :
        sh \in Shells, ks \in SeqsUpTo(ElemKinds, MaxElems) }

\* the text nodes below an element, in document order
TextNodes(e) == <<e.text>> \o (IF e.script = <<>> THEN <<>> ELSE <<e.script>>)

RECURSIVE KeepContent(_)
KeepContent(elems) ==
    IF elems = <<>> THEN <<>>
    ELSE IF Head(elems).tag \in {"script", "style"} THEN KeepContent(Tail(elems))
    ELSE <<[Head(elems) EXCEPT !.script = <<>>]>> \o KeepContent(Tail(elems))

\* for script in soup(["script", "style"]): script.decompose()
Decompose(doc) == [doc EXCEPT !.elems = KeepContent(doc.elems)]

\* the first of a set of positions, 0 when there is none (find returns None)
First(hits) == IF hits = {} THEN 0 ELSE CHOOSE k \in hits : \A j \in hits : k <= j

\* class_=re.compile(...): some class token contains a match of the pattern
ClassMatches(e) ==
    \E t \in 1..Len(e.cls) : \E alt \in ClassPattern : Contains(e.cls[t], alt)

IsMain(e) == e.tag = "main"
IsArticle(e) == e.tag = "article"
IsContentDiv(e) == e.tag = "div" /\ ClassMatches(e)

\* a selection that looks for an article before a main element
MainContent_ArticleFirst(doc) ==
    LET m == First({k \in 1..Len(doc.elems) : IsMain(doc.elems[k])})
        a == First({k \in 1..Len(doc.elems) : IsArticle(doc.elems[k])})
        d == First({k \in 1..Len(doc.elems) : IsContentDiv(doc.elems[k])})
    IN IF a # 0 THEN [kind |-> "article", idx |-> a]
       ELSE IF m # 0 THEN [kind |-> "main", idx |-> m]
       ELSE IF d # 0 THEN [kind |-> "class", idx |-> d]
       ELSE IF doc.hasBody THEN [kind |-> "body", idx |-> 0]
       ELSE [kind |-> "document", idx |-> 0]

\* soup.find('main') or soup.find('article') or soup.find('div', class_=...)
\* or soup.body, and the whole document when all of them are None
MainContent(doc) ==
    LET m == First({k \in 1..Len(doc.elems) : IsMain(doc.elems[k])})
        a == First({k \in 1..Len(doc.elems) : IsArticle(doc.elems[k])})
        d == First({k \in 1..Len(doc.elems) : IsContentDiv(doc.elems[k])})
    IN IF m # 0 THEN [kind |-> "main", idx |-> m]
       ELSE IF a # 0 THEN [kind |-> "article", idx |-> a]
       ELSE IF d # 0 THEN [kind |-> "class", idx |-> d]
       ELSE IF doc.hasBody THEN [kind |-> "body", idx |-> 0]
       ELSE [kind |-> "document", idx |-> 0]

AllTextNodes(elems) == Flatten([k \in 1..Len(elems) |-> TextNodes(elems[k])])

NodesOf(doc, sel) ==
    CASE sel.kind \in {"main", "article", "class"} -> TextNodes(doc.elems[sel.idx])
      [] sel.kind = "body" -> AllTextNodes(doc.elems)
      [] OTHER -> (IF doc.head = <<>> THEN <<>> ELSE <<doc.head>>) \o AllTextNodes(doc.elems)

RECURSIVE NonEmptyStripped(_)
NonEmptyStripped(nodes) ==
    IF nodes = <<>> THEN <<>>
    ELSE IF Strip(Head(nodes)) = <<>> THEN NonEmptyStripped(Tail(nodes))
    ELSE <<Strip(Head(nodes))>> \o NonEmptyStripped(Tail(nodes))

\* get_text(separator=' ', strip=True)
GetText(nodes) == Join(<<" ">>, NonEmptyStripped(nodes))

\* text = re.sub(r'\s+', ' ', text).strip()
CleanText(text) == Strip(CollapseWs(text))

\* a truncation that also cuts a text of exactly max_length characters
Truncate_OffByOne(text, n) ==
    IF Len(text) >= n THEN SubSeq(text, 1, n) \o S_ellipsis ELSE text

\* if len(text) > max_length: text = text[:max_length] + "..."
Truncate(text, n) ==
    IF Len(text) > n THEN SubSeq(text, 1, n) \o S_ellipsis ELSE text

\* lines 34-60: parse, drop scripts, select, flatten, clean, truncate
ExtractText(doc, n) ==
    LET soup == Decompose(doc)
    IN Truncate(CleanText(GetText(NodesOf(soup, MainContent(soup)))), n)

-----------------------------------------------------------------------------
(* Outcomes of a request: session.get / session.head raises, or answers.   *)

Raise(reason) ==
    [kind |-> "raise", reason |-> reason, status |-> 0, headers |-> <<>>,
     text_raises |-> FALSE, doc |-> EmptyDoc, final_url |-> <<>>]

Answer(status, headers, text_raises, doc) ==
    [kind |-> "response", reason |-> <<>>, status |-> status, headers |-> headers,
     text_raises |-> text_raises, doc |-> doc, final_url |-> <<"u">>]

E_timeout == <<"t","i","m","e","o","u","t">>
E_refused == <<"r","e","f","u","s","e","d">>
E_decode == <<"d","e","c","o","d","e">>

\* a content-type test that takes a missing header for HTML
IsHtml_DefaultHtml(resp) ==
    Contains(Lower(CIGet(resp.headers, S_content_type, S_text_html)), S_text_html)

\* the guards of lines 26 and 29-30
StatusOk(resp) == resp.status = 200
IsHtml(resp) == Contains(Lower(CIGet(resp.headers, S_content_type, <<>>)), S_text_html)

\* fetch_page_content(session, url, max_length) on the outcome of session.get:
\* the returned string, and whether the body was read and parsed
fetch_page_content(resp, n) ==
    IF resp.kind = "raise"
    THEN [text |-> S_extraction_failed \o resp.reason, parsed |-> FALSE]
    ELSE IF ~StatusOk(resp)
    THEN [text |-> S_HTTP \o Str(resp.status), parsed |-> FALSE]
    ELSE IF ~IsHtml(resp)
    THEN [text |-> S_non_html, parsed |-> FALSE]
    ELSE IF resp.text_raises
    THEN [text |-> S_extraction_failed \o E_decode, parsed |-> FALSE]
    ELSE [text |-> ExtractText(resp.doc, n), parsed |-> TRUE]

-----------------------------------------------------------------------------
(* The extractor on its own: one call of fetch_page_content, for every     *)
(* outcome of its request and every max_length up to MaxLen.               *)

H_ContentType == <<"C","o","n","t","e","n","t","-","T","y","p","e">>
V_html == <<"t","e","x","t","/","h","t","m","l">>
V_html_charset == <<"T","e","x","t","/","H","T","M","L",";"," ","c","h","a","r","s","e","t","=","u","t","f","-","8">>
V_pdf == <<"a","p","p","l","i","c","a","t","i","o","n","/","p","d","f">>

ContentTypeHeaders ==
    { <<>>,
      <<Header(H_ContentType, V_html)>>,
      <<Header(S_content_type, V_html_charset)>>,
      <<Header(H_ContentType, V_pdf)>> }

Statuses == {200, 404, 500}

ExtractResponses ==
    {Raise(E_timeout), Raise(E_refused)}
    \cup {Answer(st, h, tr, EmptyDoc) :
            st \in Statuses, h \in ContentTypeHeaders, tr \in BOOLEAN}
    \cup {Answer(200, <<Header(H_ContentType, V_html)>>, FALSE, d) : d \in Docs}

\* an entry of the request log: what was asked and, once the await
\* returned, what came back
Request(method, u, block) ==
    [method |-> method, url |-> u, block |-> block, answered |-> FALSE,
     failed |-> FALSE, raised |-> FALSE, status |-> 0, headers |-> <<>>]

Answered(req, resp) ==
    [req EXCEPT !.answered = TRUE,
                !.failed = resp.kind = "raise" \/ resp.status # 200 \/ resp.text_raises,
                !.raised = resp.kind = "raise",
                !.status = resp.status,
                !.headers = resp.headers]

IdleSearch ==
    /\ query = <<>>
    /\ limit = 0
    /\ include_content = FALSE
    /\ result_divs = <<>>
    /\ i = 0
    /\ results = <<>>

IdleUrlInfo == content_info = Pending

IdleDecode == href = <<>>

InitExtract ==
    /\ pc = "start"
    /\ ret = Pending
    /\ requests = <<>>
    /\ response \in ExtractResponses
    /\ max_length \in 0..MaxLen
    /\ parsed = FALSE
    /\ url = <<"u">>
    /\ IdleSearch
    /\ IdleUrlInfo
    /\ IdleDecode

\* async def fetch_page_content(session, url, max_length)
FetchPageContent ==
    /\ pc = "start"
    /\ LET r == fetch_page_content(response, max_length)
       IN /\ ret' = r.text
          /\ parsed' = r.parsed
    /\ requests' = Append(requests, Answered(Request("GET", url, 0), response))
    /\ pc' = "done"
    /\ UNCHANGED <<response, max_length, query, limit, include_content,
                   result_divs, i, results, url, content_info, href>>

NextExtract == FetchPageContent

SpecExtract == InitExtract /\ [][NextExtract]_vars

\* the text of the node the extractor selected, before truncation
SelectedText(doc, sel) == CleanText(GetText(NodesOf(doc, sel)))

NonHtmlAnswer ==
    /\ response.kind = "response"
    /\ ~Contains(Lower(CIGet(response.headers, S_content_type, <<>>)), S_text_html)

\* C6 as stated: a response whose content-type does not contain text/html
\* yields "Non-HTML content" unparsed, whatever its HTTP status.
C6_AnyStatus ==
    (pc = "done" /\ NonHtmlAnswer) => (ret = S_non_html /\ ~parsed)

\* C6 amended: a non-HTML response is never parsed; with status 200 it yields
\* "Non-HTML content", with any other status it yields "HTTP <status>".
C6_NonHtml ==
    (pc = "done" /\ NonHtmlAnswer) =>
        /\ ~parsed
        /\ response.status = 200 => ret = S_non_html
        /\ response.status # 200 => ret = S_HTTP \o Str(response.status)

C6_Witness ==
    /\ pc = "done"
    /\ NonHtmlAnswer
    /\ response.status = 200
    /\ response.headers # <<>>
    /\ ret = S_non_html

\* C8: on the parsed path the output is the cleaned text when it fits in
\* max_length, and otherwise its first max_length characters followed by
\* "...", of length exactly max_length + 3.
C8_Truncation ==
    (pc = "done" /\ parsed) =>
        LET soup == Decompose(response.doc)
            t == SelectedText(soup, MainContent(soup))
        IN /\ Len(ret) <= max_length + 3
           /\ Len(t) <= max_length => ret = t
           /\ Len(t) > max_length =>
                /\ Len(ret) = max_length + 3
                /\ SubSeq(ret, 1, max_length) = SubSeq(t, 1, max_length)
                /\ SubSeq(ret, max_length + 1, max_length + 3) = S_ellipsis
           /\ \A k \in 1..Len(t) :
                IsSpace(t[k]) => (t[k] = " " /\ 1 < k /\ k < Len(t) /\ ~IsSpace(t[k + 1]))

C8_Witness ==
    /\ pc = "done"
    /\ parsed
    /\ max_length > 0
    /\ Len(ret) = max_length + 3
    /\ \E k \in 1..max_length : ret[k] = " "

\* the selection order C10 states: main, article, an element of any tag whose
\* class matches content|main|article in any letter case, body, document
C10_ClaimedMatch(e) ==
    \E t \in 1..Len(e.cls) : \E alt \in ClassPattern : Contains(Lower(e.cls[t]), alt)

C10_ClaimedSelection(doc) ==
    LET m == First({k \in 1..Len(doc.elems) : doc.elems[k].tag = "main"})
        a == First({k \in 1..Len(doc.elems) : doc.elems[k].tag = "article"})
        c == First({k \in 1..Len(doc.elems) : C10_ClaimedMatch(doc.elems[k])})
    IN IF m # 0 THEN [kind |-> "main", idx |-> m]
       ELSE IF a # 0 THEN [kind |-> "article", idx |-> a]
       ELSE IF c # 0 THEN [kind |-> "class", idx |-> c]
       ELSE IF doc.hasBody THEN [kind |-> "body", idx |-> 0]
       ELSE [kind |-> "document", idx |-> 0]

\* C10 as stated: the text comes from the first of main, article, any
\* element whose class matches case-insensitively, body, whole document.
C10_AnyTagAnyCase ==
    (pc = "done" /\ parsed) =>
        LET soup == Decompose(response.doc)
        IN ret = Truncate(SelectedText(soup, C10_ClaimedSelection(soup)), max_length)

\* what C10's amended order selects: sel is a candidate of the document and
\* every candidate earlier in the order is absent
C10_Selects(doc, sel) ==
    LET mains == {k \in 1..Len(doc.elems) : doc.elems[k].tag = "main"}
        arts == {k \in 1..Len(doc.elems) : doc.elems[k].tag = "article"}
        divs == {k \in 1..Len(doc.elems) :
                    /\ doc.elems[k].tag = "div"
                    /\ \E t \in 1..Len(doc.elems[k].cls) : \E alt \in ClassPattern :
                          Contains(doc.elems[k].cls[t], alt)}
    IN \/ sel.kind = "main" /\ sel.idx \in mains /\ \A j \in mains : sel.idx <= j
       \/ /\ sel.kind = "article" /\ sel.idx \in arts /\ \A j \in arts : sel.idx <= j
          /\ mains = {}
       \/ /\ sel.kind = "class" /\ sel.idx \in divs /\ \A j \in divs : sel.idx <= j
          /\ mains = {} /\ arts = {}
       \/ /\ sel.kind = "body" /\ sel.idx = 0 /\ doc.hasBody
          /\ mains = {} /\ arts = {} /\ divs = {}
       \/ /\ sel.kind = "document" /\ sel.idx = 0 /\ ~doc.hasBody
          /\ mains = {} /\ arts = {} /\ divs = {}

C10_Candidates(doc) ==
    [kind : {"main", "article", "class", "body", "document"}, idx : 0..Len(doc.elems)]

\* C10 amended: the text comes from the first of main, article, a div whose
\* class matches content|main|article case-sensitively, body, whole
\* document; script and style text never reaches the output.
C10_SelectionOrder ==
    (pc = "done" /\ parsed) =>
        LET soup == Decompose(response.doc)
        IN /\ \E sel \in C10_Candidates(soup) :
                /\ C10_Selects(soup, sel)
                /\ ret = Truncate(SelectedText(soup, sel), max_length)
           /\ \A k \in 1..Len(ret) : ret[k] \notin {"$", "(", ")"}

C10_Witness ==
    /\ pc = "done"
    /\ parsed
    /\ response.doc.hasBody
    /\ Len(response.doc.elems) >= 2
    /\ \A k \in 1..Len(response.doc.elems) :
          response.doc.elems[k].tag \in {"section", "script", "div"}
    /\ \E k \in 1..Len(response.doc.elems) :
          response.doc.elems[k].tag = "div" /\ response.doc.elems[k].cls = <<Cls_nav, Cls_mainbar>>
    /\ \E k \in 1..Len(response.doc.elems) : response.doc.elems[k].tag = "script"
    /\ ret # <<>>

-----------------------------------------------------------------------------
(* Redirect decoding, lines 123-125 of web_search.                         *)

\* the characters U+0020 .. U+007E, in code order (the quote, the backslash
\* and the grave accent are written by their code points)
Ascii ==
    << " ","!","U+0022","#","$","%","&","'","(",")","*","+",",","-",".","/",
       "0","1","2","3","4","5","6","7","8","9",":",";","<","=",">","?",
       "@","A","B","C","D","E","F","G","H","I","J","K","L","M","N","O",
       "P","Q","R","S","T","U","V","W","X","Y","Z","[","U+005C","]","^","_",
       "U+0060","a","b","c","d","e","f","g","h","i","j","k","l","m","n","o",
       "p","q","r","s","t","u","v","w","x","y","z","{","|","}","~" >>

HexDigits == <<"0","1","2","3","4","5","6","7","8","9","a","b","c","d","e","f">>

IsHex(c) == \E k \in 1..16 : HexDigits[k] = LowerChar(c)
HexVal(c) == (CHOOSE k \in 1..16 : HexDigits[k] = LowerChar(c)) - 1

\* the character a %XX escape stands for.  The hrefs of HrefPieces hold no
\* escape of a control or non-ASCII byte; such an escape is shown as U+FFFD.
Unescape(a, b) ==
    LET code == 16 * HexVal(a) + HexVal(b)
    IN IF code >= 32 /\ code <= 126 THEN Ascii[code - 31] ELSE "U+FFFD"

\* urllib.parse.unquote: every %XX with two hex digits is decoded, in one
\* pass; any other character, a lone % included, is kept
RECURSIVE Unquote(_)
Unquote(s) ==
    IF s = <<>> THEN <<>>
    ELSE IF Head(s) = "%" /\ Len(s) >= 3 /\ IsHex(s[2]) /\ IsHex(s[3])
    THEN <<Unescape(s[2], s[3])>> \o Unquote(SubSeq(s, 4, Len(s)))
    ELSE <<Head(s)>> \o Unquote(Tail(s))

\* s.split(sep)[0]: s up to the first occurrence of sep, all of s without one
SplitFirst(s, sep) ==
    IF Find(s, sep) = 0 THEN s ELSE SubSeq(s, 1, Find(s, sep) - 1)

\* what follows the first occurrence of sep in s (s.split(sep, 1)[1])
AfterFirst(s, sep) == SubSeq(s, Find(s, sep) + Len(sep), Len(s))

\* s.split(sep)[1], for s containing sep
SplitSecond(s, sep) == SplitFirst(AfterFirst(s, sep), sep)

\* a target that is not cut at the first &
RedirectTarget_NoAmpCut(u) == SplitSecond(u, S_uddg)

\* url.split('uddg=')[1].split('&')[0]
RedirectTarget(u) == SplitFirst(SplitSecond(u, S_uddg), S_amp)

\* if url.startswith('/l/?uddg='): url = urllib.parse.unquote(...)
CleanUrl(u) ==
    IF StartsWith(u, S_redirect_prefix) THEN Unquote(RedirectTarget(u)) ELSE u

P_target == <<"h","t","t","p","s","%","3","A","%","2","F","%","2","F","e","x","a","m","p","l","e",".","c","o","m","%","2","F","x">>
P_rut == <<"&","r","u","t","=","a","b","c">>
P_wrapped == <<"%","2","F","l","%","2","F","%","3","F","u","d","d","g","%","3","D">>
P_plain == <<"h","t","t","p","s",":","/","/","a",".","b","/","?","q","=","1">>
P_amp_escaped == <<"%","2","6">>
P_amp_twice == <<"%","2","5","2","6">>
P_percent == <<"5","0","%">>
P_x == <<"x">>
Example_href == S_redirect_prefix \o P_target \o P_rut
Example_url == <<"h","t","t","p","s",":","/","/","e","x","a","m","p","l","e",".","c","o","m","/","x">>

HrefPieces ==
    { S_redirect_prefix, S_uddg, S_amp, P_target, P_rut, P_wrapped, P_plain,
      P_amp_escaped, P_amp_twice, P_percent, P_x }

Hrefs == {Flatten(ps) : ps \in SeqsUpTo(HrefPieces, MaxPieces)}

InitDecode ==
    /\ pc = "start"
    /\ href \in Hrefs
    /\ url = href
    /\ ret = Pending
    /\ requests = <<>>
    /\ response = Raise(<<>>)
    /\ max_length = 0
    /\ parsed = FALSE
    /\ IdleSearch
    /\ IdleUrlInfo

\* the decoding step applied to the href of the title anchor
DecodeFirst ==
    /\ pc = "start"
    /\ url' = CleanUrl(url)
    /\ ret' = CleanUrl(url)
    /\ pc' = "once"
    /\ UNCHANGED <<requests, response, max_length, parsed, query, limit,
                   include_content, result_divs, i, results, content_info, href>>

\* the decoding step applied to a url it already produced
DecodeAgain ==
    /\ pc = "once"
    /\ url' = CleanUrl(url)
    /\ pc' = "twice"
    /\ UNCHANGED <<ret, requests, response, max_length, parsed, query, limit,
                   include_content, result_divs, i, results, content_info, href>>

NextDecode == DecodeFirst \/ DecodeAgain

SpecDecode == InitDecode /\ [][NextDecode]_vars

\* the text between the first uddg= of an href and the next &
C7_UpToAmp(h) ==
    LET rest == SubSeq(h, Find(h, S_uddg) + Len(S_uddg), Len(h))
        amps == {k \in 1..Len(rest) : rest[k] = "&"}
    IN IF amps = {} THEN rest
       ELSE SubSeq(rest, 1, (CHOOSE k \in amps : \A j \in amps : k <= j) - 1)

\* C7 as stated: a wrapped href becomes the percent-decoded text between
\* uddg= and the next &, any other href is kept, and decoding the result
\* again changes nothing, for every href.
C7_AsStated ==
    /\ pc # "start" =>
          ret = IF StartsWith(href, S_redirect_prefix)
                THEN Unquote(C7_UpToAmp(href)) ELSE href
    /\ pc = "twice" => url = ret

\* the text between the first uddg= of an href and the next uddg= or &
C7_UpToCut(h) ==
    LET rest == SubSeq(h, Find(h, S_uddg) + Len(S_uddg), Len(h))
        cuts == {k \in 1..Len(rest) :
                    \/ rest[k] = "&"
                    \/ /\ k + 4 <= Len(rest)
                       /\ SubSeq(rest, k, k + 4) = S_uddg}
    IN IF cuts = {} THEN rest
       ELSE SubSeq(rest, 1, (CHOOSE k \in cuts : \A j \in cuts : k <= j) - 1)

\* C7 amended: a wrapped href becomes the percent-decoded text between its
\* first uddg= and the next uddg= or &, whichever comes first; any other
\* href is kept; decoding the result again changes nothing unless the
\* result itself begins with /l/?uddg=.
C7_Decode ==
    /\ pc # "start" =>
          /\ ret = IF StartsWith(href, S_redirect_prefix)
                   THEN Unquote(C7_UpToCut(href)) ELSE href
          /\ href = Example_href => ret = Example_url
    /\ (pc = "twice" /\ ~StartsWith(ret, S_redirect_prefix)) => url = ret

C7_Witness ==
    /\ pc = "twice"
    /\ href = Example_href
    /\ url = Example_url

-----------------------------------------------------------------------------
(* web_search.  The results page is the sequence of its top-level blocks;  *)
(* a block is a result block (a div of class result) or some other         *)
(* element, and holds at most one title anchor and one snippet anchor.     *)

S_search_url == <<"h","t","t","p","s",":","/","/","h","t","m","l",".","d","u","c","k","d","u","c","k","g","o",".","c","o","m","/","h","t","m","l","/">>

BlockKinds ==
    { [result |-> TRUE,  title_tag |-> FALSE, name |-> "N", href |-> P_plain,
       snippet_tag |-> TRUE],
      [result |-> TRUE,  title_tag |-> TRUE,  name |-> "W", href |-> Example_href,
       snippet_tag |-> TRUE],
      [result |-> TRUE,  title_tag |-> TRUE,  name |-> "P", href |-> P_plain,
       snippet_tag |-> FALSE],
      [result |-> TRUE,  title_tag |-> TRUE,  name |-> "E", href |-> <<>>,
       snippet_tag |-> TRUE],
      [result |-> FALSE, title_tag |-> TRUE,  name |-> "O", href |-> P_plain,
       snippet_tag |-> TRUE] }

\* the k-th block of a page: its anchors' texts carry the block's position
MkBlocks(kinds) ==
    [k \in 1..Len(kinds) |->
        [result |-> kinds[k].result,
         title_tag |-> kinds[k].title_tag,
         title_text |-> <<" ", kinds[k].name>> \o Str(k) \o <<"\n">>,
         href |-> kinds[k].href,
         snippet_tag |-> kinds[k].snippet_tag,
         snippet_text |-> <<"s">> \o Str(k) \o <<" ">>,
         pos |-> k]]

Pages == {MkBlocks(ks) : ks \in SeqsUpTo(BlockKinds, MaxBlocks)}

SearchResponses ==
    {Raise(E_timeout), Raise(E_refused)}
    \cup {Answer(st, <<>>, FALSE, EmptyDoc) : st \in Statuses \ {200}}
    \cup {Answer(200, <<>>, TRUE, EmptyDoc)}
    \cup {Answer(200, <<>>, FALSE, [head |-> <<>>, hasBody |-> TRUE, elems |-> p]) :
            p \in Pages}

SmallDoc ==
    [head |-> HeadText, hasBody |-> TRUE,
     elems |-> MkElems(<<[tag |-> "main", cls |-> <<>>, script |-> TRUE]>>)]

FetchResponses ==
    { Raise(E_timeout),
      Answer(404, <<Header(H_ContentType, V_html)>>, FALSE, EmptyDoc),
      Answer(200, <<Header(H_ContentType, V_pdf)>>, FALSE, EmptyDoc),
      Answer(200, <<Header(H_ContentType, V_html)>>, FALSE, SmallDoc) }

RECURSIVE FindAllResults(_)
\* soup.find_all('div', class_='result')
FindAllResults(blocks) ==
    IF blocks = <<>> THEN <<>>
    ELSE IF Head(blocks).result THEN <<Head(blocks)>> \o FindAllResults(Tail(blocks))
    ELSE FindAllResults(Tail(blocks))

\* s[:n] for n >= 0
Slice(s, n) == SubSeq(s, 1, Min(n, Len(s)))

\* a loop that examines the same block again
Advance_Stuck(k) == k

\* the index enumerate gives the next block
Advance(k) == k + 1

\* title_tag.get_text(strip=True), the cleaned href, the snippet or ""
ResultItem(b) ==
    [title |-> Strip(b.title_text),
     url |-> CleanUrl(b.href),
     snippet |-> IF b.snippet_tag THEN Strip(b.snippet_text) ELSE <<>>]

WithContent(item, content) ==
    [title |-> item.title, url |-> item.url, snippet |-> item.snippet,
     content |-> content]

\* a guard that fetches for an empty url too
ShouldFetch_AnyUrl(inc, u) == inc

\* if include_content and url:
ShouldFetch(inc, u) == inc /\ u # <<>>

\* a handler that lets the exception out of web_search
SearchExcept_Propagates(e) == [exception |-> e]

\* except Exception as e: return {"error": f"Search failed: {str(e)}"}
SearchExcept(e) == [error |-> S_search_failed \o e]

\* return {"error": f"Search failed with status {response.status}"}
SearchStatusError(st) == [error |-> S_search_failed_status \o Str(st)]

SearchResult(q, rs) == [query |-> q, results_count |-> Len(rs), results |-> rs]

Init ==
    /\ pc = "start"
    /\ ret = Pending
    /\ requests = <<>>
    /\ response = Raise(<<>>)
    /\ max_length = DefaultMaxLength
    /\ parsed = FALSE
    /\ query = <<"q">>
    /\ limit \in 1..MaxLimit
    /\ include_content \in BOOLEAN
    /\ result_divs = <<>>
    /\ i = 0
    /\ results = <<>>
    /\ url = <<>>
    /\ IdleUrlInfo
    /\ IdleDecode

\* async with session.get(search_url, params=params): the request is sent
SearchStart ==
    /\ pc = "start"
    /\ requests' = Append(requests, Request("GET", S_search_url, 0))
    /\ pc' = "searching"
    /\ UNCHANGED <<ret, response, max_length, parsed, query, limit, include_content,
                   result_divs, i, results, url, content_info, href>>

\* lines 98-106: the search request is answered (or raises) and the page
\* is parsed
SearchFinish ==
    /\ pc = "searching"
    /\ \E r \in SearchResponses :
          /\ response' = r
          /\ requests' = [requests EXCEPT ![1] = Answered(@, r)]
          /\ IF r.kind = "raise"
             THEN /\ ret' = SearchExcept(r.reason)
                  /\ pc' = "done"
                  /\ UNCHANGED <<result_divs, i, results>>
             ELSE IF r.status # 200
             THEN /\ ret' = SearchStatusError(r.status)
                  /\ pc' = "done"
                  /\ UNCHANGED <<result_divs, i, results>>
             ELSE IF r.text_raises
             THEN /\ ret' = SearchExcept(E_decode)
                  /\ pc' = "done"
                  /\ UNCHANGED <<result_divs, i, results>>
             ELSE /\ result_divs' = FindAllResults(r.doc.elems)
                  /\ i' = 0
                  /\ results' = <<>>
                  /\ pc' = "loop"
                  /\ ret' = ret
    /\ UNCHANGED <<max_length, parsed, query, limit, include_content, url,
                   content_info, href>>

\* the loop of line 108 has a block left to examine
InLoop ==
    /\ pc = "loop"
    /\ i < Len(Slice(result_divs, limit))
    /\ ~(i >= limit)

\* lines 116-117: no title anchor, continue
LoopSkip ==
    /\ InLoop
    /\ ~Slice(result_divs, limit)[i + 1].title_tag
    /\ i' = Advance(i)
    /\ UNCHANGED <<pc, ret, requests, response, max_length, parsed, query, limit,
                   include_content, result_divs, results, url, content_info, href>>

\* lines 119-133 and 143, when no content is fetched
LoopEmit ==
    /\ InLoop
    /\ Slice(result_divs, limit)[i + 1].title_tag
    /\ LET item == ResultItem(Slice(result_divs, limit)[i + 1])
       IN /\ ~ShouldFetch(include_content, item.url)
          /\ results' = Append(results, item)
          /\ url' = item.url
    /\ i' = Advance(i)
    /\ UNCHANGED <<pc, ret, requests, response, max_length, parsed, query, limit,
                   include_content, result_divs, content_info, href>>

\* lines 136-138: the content request of the current item is sent
FetchStart ==
    /\ InLoop
    /\ Slice(result_divs, limit)[i + 1].title_tag
    /\ LET b == Slice(result_divs, limit)[i + 1]
           item == ResultItem(b)
       IN /\ ShouldFetch(include_content, item.url)
          /\ url' = item.url
          /\ requests' = Append(requests, Request("GET", item.url, b.pos))
    /\ pc' = "fetching"
    /\ UNCHANGED <<ret, response, max_length, parsed, query, limit, include_content,
                   result_divs, i, results, content_info, href>>

\* lines 138-143: fetch_page_content returns and the item is appended
FetchFinish ==
    /\ pc = "fetching"
    /\ \E r \in FetchResponses :
          LET got == fetch_page_content(r, max_length)
              item == ResultItem(Slice(result_divs, limit)[i + 1])
          IN /\ response' = r
             /\ parsed' = got.parsed
             /\ requests' = [requests EXCEPT ![Len(requests)] = Answered(@, r)]
             /\ results' = Append(results, WithContent(item, got.text))
    /\ i' = Advance(i)
    /\ pc' = "loop"
    /\ UNCHANGED <<ret, max_length, query, limit, include_content, result_divs, url,
                   content_info, href>>

\* lines 145-149
Return ==
    /\ pc = "loop"
    /\ i >= Len(Slice(result_divs, limit)) \/ i >= limit
    /\ ret' = SearchResult(query, results)
    /\ pc' = "done"
    /\ UNCHANGED <<requests, response, max_length, parsed, query, limit,
                   include_content, result_divs, i, results, url, content_info, href>>

Next ==
    \/ SearchStart
    \/ SearchFinish
    \/ LoopSkip
    \/ LoopEmit
    \/ FetchStart
    \/ FetchFinish
    \/ Return

Spec == Init /\ [][Next]_vars

-----------------------------------------------------------------------------
(* Claims about web_search, checked under Spec.                            *)

HasTitleAnchor(b) == b.title_tag

\* title, url and snippet as the page's markup gives them for block b
MetaOf(b) ==
    [title |-> Strip(b.title_text),
     url |-> IF StartsWith(b.href, S_redirect_prefix)
             THEN Unquote(C7_UpToCut(b.href)) ELSE b.href,
     snippet |-> IF b.snippet_tag THEN Strip(b.snippet_text) ELSE <<>>]

MetaOfItem(item) == [title |-> item.title, url |-> item.url, snippet |-> item.snippet]

Succeeded == pc = "done" /\ "results" \in DOMAIN ret

\* C1: results_count <= limit and results_count = min(limit, number of
\* result blocks with a title anchor); untitled blocks do not count toward
\* limit; the items are in document order.
C1_FillsQuota ==
    Succeeded =>
        LET titled == SelectSeq(result_divs, HasTitleAnchor)
        IN /\ ret.results_count <= limit
           /\ ret.results_count = Min(limit, Len(titled))
           /\ \A j \in 1..ret.results_count :
                 ret.results[j].title = Strip(titled[j].title_text)

S_search_failed_prefix == <<"S","e","a","r","c","h"," ","f","a","i","l","e","d">>

\* C2: web_search returns {query, results_count, results} with
\* results_count = len(results), or {error}; a failed or non-200 search
\* request gives an error beginning with "Search failed" and nothing else;
\* no exception leaves web_search.
C2_TwoShapes ==
    pc = "done" =>
        /\ \/ /\ DOMAIN ret = {"query", "results_count", "results"}
              /\ ret.results_count = Len(ret.results)
              /\ ret.query = query
           \/ DOMAIN ret = {"error"}
        /\ requests[1].failed =>
              /\ DOMAIN ret = {"error"}
              /\ StartsWith(ret.error, S_search_failed_prefix)

C2_Witness ==
    /\ pc = "done"
    /\ response.kind = "raise"
    /\ requests[1].failed
    /\ ret = [error |-> S_search_failed \o E_timeout]

\* C3: an item has a content field iff include_content and its url is not
\* empty; a failed fetch only puts a failure string in that item's content:
\* the response is no error and the items' title, url, snippet and their
\* number are what the page alone determines.
C3_ContentField ==
    (pc = "done" /\ ~requests[1].failed) =>
        LET titled == SelectSeq(Slice(result_divs, limit), HasTitleAnchor)
        IN /\ "results" \in DOMAIN ret
           /\ ret.results_count = Len(titled)
           /\ \A j \in 1..Len(ret.results) :
                 /\ MetaOfItem(ret.results[j]) = MetaOf(titled[j])
                 /\ "content" \in DOMAIN ret.results[j]
                       <=> (include_content /\ ret.results[j].url # <<>>)
           /\ \A k \in 2..Len(requests) :
                 requests[k].failed =>
                    \E j \in 1..Len(titled) :
                       /\ titled[j].pos = requests[k].block
                       /\ \/ StartsWith(ret.results[j].content, S_extraction_failed)
                          \/ StartsWith(ret.results[j].content, S_HTTP)

C3_Witness ==
    /\ Succeeded
    /\ include_content
    /\ ret.results_count = 3
    /\ Len(requests) = 3
    /\ requests[2].failed
    /\ "content" \in DOMAIN ret.results[1]
    /\ ret.results[1].content = S_extraction_failed \o E_timeout
    /\ "content" \notin DOMAIN ret.results[2]
    /\ "content" \in DOMAIN ret.results[3]
    /\ ~requests[3].failed

\* C9: the search request completes first; blocks are handled in document
\* order; a content request is answered before the next block is examined;
\* an emitted item causes at most one content request, skipped blocks and
\* include_content = false cause none, nothing is retried; at most
\* 1 + results_count requests are issued and results keep document order.
C9_Sequential ==
    /\ pc # "start" => (Len(requests) >= 1 /\ requests[1].block = 0)
    /\ pc \in {"start", "searching"} => Len(requests) <= 1
    /\ \A k \in 2..Len(requests) :
          /\ requests[1].answered /\ ~requests[1].failed
          /\ requests[k - 1].answered
          /\ k > 2 => requests[k - 1].block < requests[k].block
          /\ include_content
          /\ requests[k].url # <<>>
          /\ \E n \in 1..Len(Slice(result_divs, limit)) :
                /\ result_divs[n].pos = requests[k].block
                /\ result_divs[n].title_tag
                /\ n <= i + 1
    /\ pc \in {"loop", "fetching", "done"} =>
          Cardinality({j \in 1..Len(results) : "content" \in DOMAIN results[j]})
             = Len(requests) - 1 - (IF pc = "fetching" THEN 1 ELSE 0)
    /\ pc = "fetching" <=> (requests # <<>> /\ requests[Len(requests)].block # 0
                            /\ ~requests[Len(requests)].answered)
    /\ pc = "done" =>
          /\ \A k \in 1..Len(requests) : requests[k].answered
          /\ "error" \in DOMAIN ret => Len(requests) = 1
          /\ "results" \in DOMAIN ret =>
                /\ Len(requests) <= 1 + ret.results_count
                /\ Len(requests) =
                      1 + Cardinality({j \in 1..Len(ret.results) :
                                          "content" \in DOMAIN ret.results[j]})
                /\ LET titled == SelectSeq(Slice(result_divs, limit), HasTitleAnchor)
                   IN /\ Len(ret.results) = Len(titled)
                      /\ \A j \in 1..Len(titled) :
                            ret.results[j].title = Strip(titled[j].title_text)

C9_Witness ==
    /\ Succeeded
    /\ Len(requests) = 3
    /\ ret.results_count = 2
    /\ requests[2].failed
    /\ requests[2].block < requests[3].block
    /\ \E n \in 1..Len(result_divs) : ~result_divs[n].title_tag /\ n < limit

-----------------------------------------------------------------------------
(* url_info.  The metadata-only request is answered with a status and      *)
(* headers whose names arrive in the letter case the server chose.         *)

H_content_type_names == {H_ContentType, S_content_type}
H_ContentLength == <<"C","o","n","t","e","n","t","-","L","e","n","g","t","h">>
H_Server == <<"S","e","r","v","e","r">>
H_LastModified == <<"L","a","s","t","-","M","o","d","i","f","i","e","d">>
V_length == <<"4","2">>
V_server == <<"n","g","i","n","x">>
V_date == <<"M","o","n",","," ","0","1"," ","J","a","n">>

\* zero or one header line for a field, under each of the given names
Lines(names, values) ==
    {<<>>} \cup {<<Header(n, v)>> : n \in names, v \in values}

HeadHeaders ==
    { ct \o cl \o sv \o lm :
        ct \in Lines(H_content_type_names, {V_html, V_html_charset, V_pdf}),
        cl \in Lines({H_ContentLength, S_content_length}, {V_length}),
        sv \in Lines({H_Server, S_server}, {V_server}),
        lm \in Lines({H_LastModified, S_last_modified}, {V_date}) }

HeadResponses ==
    {Raise(E_timeout), Raise(E_refused)}
    \cup {Answer(st, h, FALSE, EmptyDoc) : st \in {200, 404}, h \in HeadHeaders}

PreviewResponses ==
    FetchResponses
    \cup { Raise(E_refused),
           Answer(200, <<Header(S_content_type, V_html_charset)>>, TRUE, EmptyDoc),
           Answer(200, <<Header(S_content_type, V_html_charset)>>, FALSE,
                  [head |-> <<>>, hasBody |-> TRUE,
                   elems |-> MkElems(<<[tag |-> "div", cls |-> <<>>, script |-> FALSE],
                                       [tag |-> "script", cls |-> <<>>, script |-> FALSE],
                                       [tag |-> "section", cls |-> <<>>, script |-> FALSE]>>)]) }

\* lines 174-185: headers = dict(response.headers) and the four lookups
ContentInfo(resp) ==
    [url |-> resp.final_url,
     status_code |-> resp.status,
     content_type |-> DictGet(resp.headers, S_content_type, S_unknown),
     content_length |-> DictGet(resp.headers, S_content_length, S_unknown),
     server |-> DictGet(resp.headers, S_server, S_unknown),
     last_modified |-> DictGet(resp.headers, S_last_modified, S_unknown)]

\* if 'text/html' in content_info["content_type"].lower():
WantsPreview(info) == Contains(Lower(info.content_type), S_text_html)

WithPreview(info, content) ==
    [url |-> info.url, status_code |-> info.status_code,
     content_type |-> info.content_type, content_length |-> info.content_length,
     server |-> info.server, last_modified |-> info.last_modified,
     content_preview |-> content]

\* a handler that lets the exception out of url_info
UrlInfoExcept_Propagates(e) == [exception |-> e]

\* except Exception as e: return {"error": f"URL analysis failed: {str(e)}"}
UrlInfoExcept(e) == [error |-> S_url_analysis_failed \o e]

InitUrlInfo ==
    /\ pc = "start"
    /\ ret = Pending
    /\ requests = <<>>
    /\ response = Raise(<<>>)
    /\ max_length = PreviewMaxLength
    /\ parsed = FALSE
    /\ url \in {<<"u">>, <<"v">>}
    /\ content_info = Pending
    /\ IdleSearch
    /\ IdleDecode

\* async with session.head(url, allow_redirects=True): the request is sent
HeadStart ==
    /\ pc = "start"
    /\ requests' = Append(requests, Request("HEAD", url, 0))
    /\ pc' = "head"
    /\ UNCHANGED <<ret, response, max_length, parsed, query, limit, include_content,
                   result_divs, i, results, url, content_info, href>>

\* lines 173-192 up to the next await: the answer is read, content_info is
\* built, and either the body request is sent or content_info is returned
HeadFinish ==
    /\ pc = "head"
    /\ \E r \in HeadResponses :
          /\ response' = r
          /\ IF r.kind = "raise"
             THEN /\ ret' = UrlInfoExcept(r.reason)
                  /\ requests' = [requests EXCEPT ![1] = Answered(@, r)]
                  /\ pc' = "done"
                  /\ UNCHANGED content_info
             ELSE IF WantsPreview(ContentInfo(r))
             THEN /\ content_info' = ContentInfo(r)
                  /\ requests' = Append([requests EXCEPT ![1] = Answered(@, r)],
                                        Request("GET", r.final_url, 0))
                  /\ pc' = "fetching"
                  /\ ret' = ret
             ELSE /\ content_info' = ContentInfo(r)
                  /\ requests' = [requests EXCEPT ![1] = Answered(@, r)]
                  /\ ret' = ContentInfo(r)
                  /\ pc' = "done"
    /\ UNCHANGED <<max_length, parsed, query, limit, include_content, result_divs, i,
                   results, url, href>>

\* lines 189-192: fetch_page_content returns and the preview is attached
PreviewFinish ==
    /\ pc = "fetching"
    /\ \E r \in PreviewResponses :
          LET got == fetch_page_content(r, max_length)
          IN /\ response' = r
             /\ parsed' = got.parsed
             /\ requests' = [requests EXCEPT ![2] = Answered(@, r)]
             /\ content_info' = WithPreview(content_info, got.text)
             /\ ret' = WithPreview(content_info, got.text)
    /\ pc' = "done"
    /\ UNCHANGED <<max_length, query, limit, include_content, result_divs, i, results,
                   url, href>>

NextUrlInfo == HeadStart \/ HeadFinish \/ PreviewFinish

SpecUrlInfo == InitUrlInfo /\ [][NextUrlInfo]_vars

\* the body request of url_info raised, or reading its body did
BodyFetchFailed ==
    /\ Len(requests) = 2
    /\ requests[2].answered
    /\ \/ requests[2].raised
       \/ /\ response.status = 200
          /\ Contains(Lower(CIGet(response.headers, S_content_type, <<>>)), S_text_html)
          /\ response.text_raises

\* C4 as stated: a failure anywhere in url_info, the body fetch included,
\* gives {error: "URL analysis failed: ..."}.
C4_AnyFailure ==
    (pc = "done" /\ (requests[1].raised \/ BodyFetchFailed)) =>
        /\ DOMAIN ret = {"error"}
        /\ StartsWith(ret.error, S_url_analysis_failed)

\* C4 amended: a failure of the metadata-only request gives
\* {error: "URL analysis failed: ..."}; a failure of the body fetch or of
\* the extraction gives a non-error response whose content_preview is the
\* extractor's failure string.
C4_HeadFailure ==
    pc = "done" =>
        /\ requests[1].raised =>
              /\ DOMAIN ret = {"error"}
              /\ StartsWith(ret.error, S_url_analysis_failed)
              /\ Len(requests) = 1
        /\ ~requests[1].raised =>
              /\ "error" \notin DOMAIN ret
              /\ ret.status_code = requests[1].status
        /\ BodyFetchFailed =>
              /\ "error" \notin DOMAIN ret
              /\ "content_preview" \in DOMAIN ret
              /\ StartsWith(ret.content_preview, S_extraction_failed)

C4_Witness ==
    /\ pc = "done"
    /\ BodyFetchFailed
    /\ requests[2].raised
    /\ "content_preview" \in DOMAIN ret
    /\ ret.content_preview = S_extraction_failed \o E_timeout

\* C5: content_type, content_length, server and last_modified are the values
\* of the response's headers, names compared case-insensitively, and
\* "unknown" only for an absent header; content_preview is attached whenever
\* the content-type contains text/html.
C5_HeaderValues ==
    (pc = "done" /\ "error" \notin DOMAIN ret) =>
        LET hs == requests[1].headers
        IN /\ ret.content_type = CIGet(hs, S_content_type, S_unknown)
           /\ ret.content_length = CIGet(hs, S_content_length, S_unknown)
           /\ ret.server = CIGet(hs, S_server, S_unknown)
           /\ ret.last_modified = CIGet(hs, S_last_modified, S_unknown)
           /\ Contains(Lower(CIGet(hs, S_content_type, <<>>)), S_text_html)
                 => "content_preview" \in DOMAIN ret

=============================================================================
